---- MODULE Spec2Model ----
(***************************************************************************)
(* helm_factory.kubernetes_objects.deployment: the Deployment resource     *)
(* classes and the HelmYaml rendering they inherit.                        *)
(*                                                                         *)
(* The state is the Python heap the caller builds (configuration objects   *)
(* and the lists it passes to them), the arguments each constructor was    *)
(* called with, and the outcome of the last render call.  Strings are      *)
(* sequences of one-character strings so that naming conversion, scalar    *)
(* formatting and parsing are computed character by character.             *)
(***************************************************************************)
EXTENDS Integers, Sequences, FiniteSets, TLC

VARIABLES heap, ctor, last

vars == <<heap, ctor, last>>

(* Bounds of the model. *)
MaxNodes == 3
MaxElems == 2

(***************************************************************************)
(* Identifiers, spelled character by character: constructor parameters     *)
(* (lower_snake_case) and the attributes the constructors assign            *)
(* (lowerCamelCase).                                                       *)
(***************************************************************************)
ID_max_surge == <<"m", "a", "x", "_", "s", "u", "r", "g", "e">>
ID_max_unavailable == <<"m", "a", "x", "_", "u", "n", "a", "v", "a", "i", "l", "a", "b", "l", "e">>
ID_maxSurge == <<"m", "a", "x", "S", "u", "r", "g", "e">>
ID_maxUnavailable == <<"m", "a", "x", "U", "n", "a", "v", "a", "i", "l", "a", "b", "l", "e">>
ID_rolling_update == <<"r", "o", "l", "l", "i", "n", "g", "_", "u", "p", "d", "a", "t", "e">>
ID_rollingUpdate == <<"r", "o", "l", "l", "i", "n", "g", "U", "p", "d", "a", "t", "e">>
ID_type == <<"t", "y", "p", "e">>
ID_template == <<"t", "e", "m", "p", "l", "a", "t", "e">>
ID_min_ready_seconds == <<"m", "i", "n", "_", "r", "e", "a", "d", "y", "_", "s", "e", "c", "o", "n", "d", "s">>
ID_minReadySeconds == <<"m", "i", "n", "R", "e", "a", "d", "y", "S", "e", "c", "o", "n", "d", "s">>
ID_paused == <<"p", "a", "u", "s", "e", "d">>
ID_progress_deadline_seconds == <<"p", "r", "o", "g", "r", "e", "s", "s", "_", "d", "e", "a", "d", "l", "i", "n", "e", "_", "s", "e", "c", "o", "n", "d", "s">>
ID_progressDeadlineSeconds == <<"p", "r", "o", "g", "r", "e", "s", "s", "D", "e", "a", "d", "l", "i", "n", "e", "S", "e", "c", "o", "n", "d", "s">>
ID_replicas == <<"r", "e", "p", "l", "i", "c", "a", "s">>
ID_revision_history_limit == <<"r", "e", "v", "i", "s", "i", "o", "n", "_", "h", "i", "s", "t", "o", "r", "y", "_", "l", "i", "m", "i", "t">>
ID_revisionHistoryLimit == <<"r", "e", "v", "i", "s", "i", "o", "n", "H", "i", "s", "t", "o", "r", "y", "L", "i", "m", "i", "t">>
ID_selector == <<"s", "e", "l", "e", "c", "t", "o", "r">>
ID_strategy == <<"s", "t", "r", "a", "t", "e", "g", "y">>
ID_last_transition_time == <<"l", "a", "s", "t", "_", "t", "r", "a", "n", "s", "i", "t", "i", "o", "n", "_", "t", "i", "m", "e">>
ID_lastTransitionTime == <<"l", "a", "s", "t", "T", "r", "a", "n", "s", "i", "t", "i", "o", "n", "T", "i", "m", "e">>
ID_last_update_time == <<"l", "a", "s", "t", "_", "u", "p", "d", "a", "t", "e", "_", "t", "i", "m", "e">>
ID_lastUpdateTime == <<"l", "a", "s", "t", "U", "p", "d", "a", "t", "e", "T", "i", "m", "e">>
ID_message == <<"m", "e", "s", "s", "a", "g", "e">>
ID_reason == <<"r", "e", "a", "s", "o", "n">>
ID_metadata == <<"m", "e", "t", "a", "d", "a", "t", "a">>
ID_spec == <<"s", "p", "e", "c">>
ID_api_version == <<"a", "p", "i", "_", "v", "e", "r", "s", "i", "o", "n">>
ID_apiVersion == <<"a", "p", "i", "V", "e", "r", "s", "i", "o", "n">>
ID_items == <<"i", "t", "e", "m", "s">>

(***************************************************************************)
(* Python values.  One record shape for all of them: t is the type tag,    *)
(* s the characters of a string, n the number of an int, the truth value   *)
(* of a bool (0/1), the seconds since midnight of a datetime.time, or the  *)
(* heap address of an object or list.                                      *)
(***************************************************************************)
None == [t |-> "none", s |-> <<>>, n |-> 0]
PyStr(chars) == [t |-> "str", s |-> chars, n |-> 0]
PyInt(i) == [t |-> "int", s |-> <<>>, n |-> i]
PyBool(b) == [t |-> "bool", s |-> <<>>, n |-> IF b THEN 1 ELSE 0]
PyTime(secs) == [t |-> "time", s |-> <<>>, n |-> secs]
Ref(id) == [t |-> "ref", s |-> <<>>, n |-> id]
(* A value of a type with no rendering rule: a function object. *)
Func == [t |-> "func", s |-> <<>>, n |-> 0]
(* A parameter the caller left out of the call (not a Python value). *)
Omitted == [t |-> "omitted", s |-> <<>>, n |-> 0]

IsScalar(v) == v.t \in {"none", "str", "int", "bool", "time"}
(* Python truthiness of a scalar: 0, False, "" and None are falsy. *)
IsFalsy(v) ==
    \/ v.t = "none"
    \/ v.t \in {"int", "bool"} /\ v.n = 0
    \/ v.t = "str" /\ v.s = <<>>

(***************************************************************************)
(* Naming convention: the wire identifier (lowerCamelCase) of a declared   *)
(* identifier (lower_snake_case).  A pure function of the identifier.      *)
(***************************************************************************)
LowerChars == <<"a", "b", "c", "d", "e", "f", "g", "h", "i", "j", "k", "l", "m",
                "n", "o", "p", "q", "r", "s", "t", "u", "v", "w", "x", "y", "z">>
UpperChars == <<"A", "B", "C", "D", "E", "F", "G", "H", "I", "J", "K", "L", "M",
                "N", "O", "P", "Q", "R", "S", "T", "U", "V", "W", "X", "Y", "Z">>
Upper(c) ==
    IF \E i \in 1..26 : LowerChars[i] = c
    THEN UpperChars[CHOOSE i \in 1..26 : LowerChars[i] = c]
    ELSE c

RECURSIVE CamelFrom(_, _)
CamelFrom(s, upper) ==
    IF s = <<>> THEN <<>>
    ELSE IF s[1] = "_" THEN CamelFrom(Tail(s), TRUE)
    ELSE <<IF upper THEN Upper(s[1]) ELSE s[1]>> \o CamelFrom(Tail(s), FALSE)
SnakeToCamel(identifier) == CamelFrom(identifier, FALSE)

(***************************************************************************)
(* The heap.  heap[id] is an object (cls its class, attrs its __dict__ in  *)
(* insertion order) or a list (cls = "list", elems its elements).          *)
(* ctor[id] holds the arguments the caller passed when it constructed      *)
(* heap[id], in the order of the constructor's signature.                  *)
(***************************************************************************)
Ids == 1..Len(heap)
IsList(id) == heap[id].cls = "list"
IsObject(id) == heap[id].cls # "list"
Refs == {Ref(id) : id \in Ids}
ListRefs == {Ref(id) : id \in {i \in Ids : IsList(i)}}
ObjectRefs == {Ref(id) : id \in {i \in Ids : IsObject(i)}}
RefsOf(cls) == {Ref(id) : id \in {i \in Ids : heap[i].cls = cls}}

(* self.name = val: a new attribute goes last, an existing one keeps its place. *)
SetAttr(attrs, name, val) ==
    IF \E i \in 1..Len(attrs) : attrs[i].name = name
    THEN [i \in 1..Len(attrs) |->
             IF attrs[i].name = name THEN [name |-> name, val |-> val] ELSE attrs[i]]
    ELSE Append(attrs, [name |-> name, val |-> val])

(* A parameter left out of the call takes the default of the signature. *)
Bind(given, default) == IF given = Omitted THEN default ELSE given

(* Mutant: a zero max_surge is raised to 1 when max_unavailable is zero     *)
(* ("This can not be 0 if MaxUnavailable is 0").                           *)
RollingUpdateDeployment_init_validating(max_surge, max_unavailable) ==
    SetAttr(SetAttr(<<>>,
        ID_maxSurge,
        IF max_surge = PyInt(0) /\ max_unavailable = PyInt(0) THEN PyInt(1) ELSE max_surge),
        ID_maxUnavailable, max_unavailable)

(* Mutant: the documented default ("Defaults to 25%") is stored for an     *)
(* absent max_unavailable.                                                 *)
RollingUpdateDeployment_init_defaulted(max_surge, max_unavailable) ==
    SetAttr(SetAttr(<<>>,
        ID_maxSurge, max_surge),
        ID_maxUnavailable,
        IF max_unavailable = None THEN PyStr(<<"2", "5", "%">>) ELSE max_unavailable)

RollingUpdateDeployment_init(max_surge, max_unavailable) ==
    SetAttr(SetAttr(<<>>,
        ID_maxSurge, max_surge),
        ID_maxUnavailable, max_unavailable)

(* Mutant: the two assignments are crossed. *)
DeploymentStrategy_init_crossed(rolling_update, type) ==
    SetAttr(SetAttr(<<>>,
        ID_rollingUpdate, type),
        ID_type, rolling_update)

DeploymentStrategy_init(rolling_update, type) ==
    SetAttr(SetAttr(<<>>,
        ID_rollingUpdate, rolling_update),
        ID_type, type)

(* Mutant: self.replicas = replicas or None. *)
DeploymentSpec_init_truthy(template, min_ready_seconds, paused, progress_deadline_seconds, replicas, revision_history_limit, selector, strategy) ==
    SetAttr(SetAttr(SetAttr(SetAttr(SetAttr(SetAttr(SetAttr(SetAttr(<<>>,
        ID_template, template),
        ID_minReadySeconds, min_ready_seconds),
        ID_paused, paused),
        ID_progressDeadlineSeconds, progress_deadline_seconds),
        ID_replicas, IF IsFalsy(replicas) THEN None ELSE replicas),
        ID_revisionHistoryLimit, revision_history_limit),
        ID_selector, selector),
        ID_strategy, strategy)

DeploymentSpec_init(template, min_ready_seconds, paused, progress_deadline_seconds, replicas, revision_history_limit, selector, strategy) ==
    SetAttr(SetAttr(SetAttr(SetAttr(SetAttr(SetAttr(SetAttr(SetAttr(<<>>,
        ID_template, template),
        ID_minReadySeconds, min_ready_seconds),
        ID_paused, paused),
        ID_progressDeadlineSeconds, progress_deadline_seconds),
        ID_replicas, replicas),
        ID_revisionHistoryLimit, revision_history_limit),
        ID_selector, selector),
        ID_strategy, strategy)

(* Mutant: type is assigned the reason argument. *)
DeploymentCondition_init_reasonTwice(last_transition_time, last_update_time, message, reason, type) ==
    SetAttr(SetAttr(SetAttr(SetAttr(SetAttr(<<>>,
        ID_lastTransitionTime, last_transition_time),
        ID_lastUpdateTime, last_update_time),
        ID_message, message),
        ID_reason, reason),
        ID_type, reason)

(* Mutant: the attribute keeps the parameter's snake_case name. *)
DeploymentCondition_init_snake(last_transition_time, last_update_time, message, reason, type) ==
    SetAttr(SetAttr(SetAttr(SetAttr(SetAttr(<<>>,
        ID_lastTransitionTime, last_transition_time),
        ID_last_update_time, last_update_time),
        ID_message, message),
        ID_reason, reason),
        ID_type, type)

DeploymentCondition_init(last_transition_time, last_update_time, message, reason, type) ==
    SetAttr(SetAttr(SetAttr(SetAttr(SetAttr(<<>>,
        ID_lastTransitionTime, last_transition_time),
        ID_lastUpdateTime, last_update_time),
        ID_message, message),
        ID_reason, reason),
        ID_type, type)

(* KubernetesBaseObject.__init__(api_version), called through super(). *)
KubernetesBaseObject_init(api_version) ==
    SetAttr(<<>>, ID_apiVersion, api_version)

(* Mutant: super().__init__ is called after the own fields are assigned. *)
Deployment_init_baseLast(metadata, spec, api_version) ==
    SetAttr(SetAttr(SetAttr(<<>>,
        ID_metadata, metadata),
        ID_spec, spec),
        ID_apiVersion, api_version)

Deployment_init(metadata, spec, api_version) ==
    SetAttr(SetAttr(KubernetesBaseObject_init(api_version),
        ID_metadata, metadata),
        ID_spec, spec)

(* Mutant: the items argument is not stored. *)
DeploymentList_init_noItems(items, metadata, api_version) ==
    SetAttr(SetAttr(KubernetesBaseObject_init(api_version),
        ID_items, None),
        ID_metadata, metadata)

(* Mutant: metadata is assigned the items argument. *)
DeploymentList_init_copyPaste(items, metadata, api_version) ==
    SetAttr(SetAttr(KubernetesBaseObject_init(api_version),
        ID_items, items),
        ID_metadata, items)

DeploymentList_init(items, metadata, api_version) ==
    SetAttr(SetAttr(KubernetesBaseObject_init(api_version),
        ID_items, items),
        ID_metadata, metadata)

(* The constructors' signatures: parameter names in order. *)
Params(cls) ==
    CASE cls = "RollingUpdateDeployment" -> <<ID_max_surge, ID_max_unavailable>>
      [] cls = "DeploymentStrategy" -> <<ID_rolling_update, ID_type>>
      [] cls = "DeploymentSpec" ->
            <<ID_template, ID_min_ready_seconds, ID_paused, ID_progress_deadline_seconds,
              ID_replicas, ID_revision_history_limit, ID_selector, ID_strategy>>
      [] cls = "DeploymentCondition" ->
            <<ID_last_transition_time, ID_last_update_time, ID_message, ID_reason, ID_type>>
      [] cls = "Deployment" -> <<ID_metadata, ID_spec, ID_api_version>>
      [] cls = "DeploymentList" -> <<ID_items, ID_metadata, ID_api_version>>
      [] OTHER -> <<>>

(***************************************************************************)
(* Characters and scalar literals of the output format.                    *)
(***************************************************************************)
Cat3(a, b, c) == a \o b \o c
Indent(n) == [i \in 1..n |-> " "]
DigitChars == <<"0", "1", "2", "3", "4", "5", "6", "7", "8", "9">>
IsDigit(c) == \E d \in 1..10 : DigitChars[d] = c
DigitValue(c) == (CHOOSE d \in 1..10 : DigitChars[d] = c) - 1

RECURSIVE Decimal(_)
Decimal(n) == IF n < 10 THEN <<DigitChars[n + 1]>>
              ELSE Append(Decimal(n \div 10), DigitChars[(n % 10) + 1])
IntLiteral(n) == IF n < 0 THEN <<"-">> \o Decimal(0 - n) ELSE Decimal(n)
TwoDigits(n) == <<DigitChars[(n \div 10) + 1], DigitChars[(n % 10) + 1]>>
TimeLiteral(secs) ==
    TwoDigits(secs \div 3600) \o <<":">> \o TwoDigits((secs \div 60) % 60)
        \o <<":">> \o TwoDigits(secs % 60)

IsIntText(s) ==
    LET body == IF s # <<>> /\ s[1] = "-" THEN Tail(s) ELSE s
    IN  body # <<>> /\ \A i \in 1..Len(body) : IsDigit(body[i])
IsTimeText(s) ==
    /\ Len(s) = 8
    /\ s[3] = ":" /\ s[6] = ":"
    /\ \A i \in {1, 2, 4, 5, 7, 8} : IsDigit(s[i])

TXT_null == <<"n", "u", "l", "l">>
TXT_true == <<"t", "r", "u", "e">>
TXT_false == <<"f", "a", "l", "s", "e">>
TXT_emptyMap == <<"{", "}">>
TXT_emptySeq == <<"[", "]">>
ReservedWords == {TXT_null, TXT_true, TXT_false, <<"~">>}
IndicatorChars == {"-", "'", "{", "}", "[", "]", "#", " ", "&", "*", "!", "|", ">",
                   "%", "@", "?", ":", ","}

(* Whether position i of s starts the two characters a, b. *)
PairAt(s, i, a, b) == i < Len(s) /\ s[i] = a /\ s[i + 1] = b

(* A string that would read back as another type, or not at all, is quoted. *)
NeedsQuote(s) ==
    \/ s = <<>>
    \/ IsIntText(s)
    \/ IsTimeText(s)
    \/ s \in ReservedWords
    \/ s[1] \in IndicatorChars
    \/ s[Len(s)] \in {" ", ":"}
    \/ \E i \in 1..Len(s) : PairAt(s, i, ":", " ") \/ PairAt(s, i, " ", "#")

RECURSIVE DoubleQuotes(_)
DoubleQuotes(s) ==
    IF s = <<>> THEN <<>>
    ELSE (IF s[1] = "'" THEN <<"'", "'">> ELSE <<s[1]>>) \o DoubleQuotes(Tail(s))
Quote(s) == Cat3(<<"'">>, DoubleQuotes(s), <<"'">>)

ScalarLiteral(v) ==
    CASE v.t = "none" -> TXT_null
      [] v.t = "bool" -> IF v.n = 1 THEN TXT_true ELSE TXT_false
      [] v.t = "int" -> IntLiteral(v.n)
      [] v.t = "time" -> TimeLiteral(v.n)
      [] v.t = "str" -> IF NeedsQuote(v.s) THEN Quote(v.s) ELSE v.s

(***************************************************************************)
(* HelmYaml rendering: render(object) -> text.  The text is the sequence   *)
(* of its lines.  A call ends with a document or with one of two errors,   *)
(* and an error carries no text.  depth is the deepest recursion path.     *)
(***************************************************************************)
Ok(lines, depth) == [outcome |-> "ok", text |-> lines, depth |-> depth]
Fail(error, depth) == [outcome |-> error, text |-> <<>>, depth |-> depth]
Max(a, b) == IF a >= b THEN a ELSE b

(* The fields of an object as the serializer enumerates them. *)
Fields(id) == heap[id].attrs
Absent(v) == v = None
EmptyLiteral(id) == IF IsList(id) THEN TXT_emptySeq ELSE TXT_emptyMap

RECURSIVE RenderNode(_, _, _)
RECURSIVE RenderFields(_, _, _, _)
RECURSIVE RenderItems(_, _, _, _)

(* One "key:" or "-" entry whose value is v; prefix is the entry's text up *)
(* to and excluding the value, at indentation ind.                         *)
RenderEntry(prefix, isItem, v, ind, path) ==
    IF IsScalar(v) THEN Ok(<<Cat3(prefix, <<" ">>, ScalarLiteral(v))>>, Cardinality(path))
    ELSE IF v.t = "ref" THEN
        LET sub == RenderNode(v.n, ind + 2, path)
        IN  IF sub.outcome # "ok" THEN sub
            ELSE IF sub.text = <<>>
                THEN Ok(<<Cat3(prefix, <<" ">>, EmptyLiteral(v.n))>>, sub.depth)
            ELSE IF isItem
                THEN Ok(<<Cat3(prefix, <<" ">>,
                               SubSeq(sub.text[1], ind + 3, Len(sub.text[1])))>>
                        \o Tail(sub.text), sub.depth)
            ELSE Ok(<<prefix>> \o sub.text, sub.depth)
    ELSE Fail("UnsupportedTypeError", Cardinality(path))

RenderFields(attrs, i, ind, path) ==
    IF i > Len(attrs) THEN Ok(<<>>, Cardinality(path))
    ELSE IF Absent(attrs[i].val) THEN RenderFields(attrs, i + 1, ind, path)
    ELSE LET head == RenderEntry(Cat3(Indent(ind), attrs[i].name, <<":">>), FALSE,
                                 attrs[i].val, ind, path)
         IN  IF head.outcome # "ok" THEN head
             ELSE LET rest == RenderFields(attrs, i + 1, ind, path)
                  IN  IF rest.outcome # "ok" THEN rest
                      ELSE Ok(head.text \o rest.text, Max(head.depth, rest.depth))

RenderItems(elems, i, ind, path) ==
    IF i > Len(elems) THEN Ok(<<>>, Cardinality(path))
    ELSE LET head == RenderEntry(Indent(ind) \o <<"-">>, TRUE, elems[i], ind, path)
         IN  IF head.outcome # "ok" THEN head
             ELSE LET rest == RenderItems(elems, i + 1, ind, path)
                  IN  IF rest.outcome # "ok" THEN rest
                      ELSE Ok(head.text \o rest.text, Max(head.depth, rest.depth))

RenderNode(id, ind, path) ==
    IF id \in path THEN Fail("CyclicGraphError", Cardinality(path))
    ELSE IF IsList(id) THEN RenderItems(heap[id].elems, 1, ind, path \cup {id})
    ELSE RenderFields(Fields(id), 1, ind, path \cup {id})

render(object) ==
    IF IsScalar(object) THEN Ok(<<ScalarLiteral(object)>>, 0)
    ELSE IF object.t = "ref" THEN
        LET doc == RenderNode(object.n, 0, {})
        IN  IF doc.outcome = "ok" /\ doc.text = <<>>
            THEN Ok(<<EmptyLiteral(object.n)>>, doc.depth)
            ELSE doc
    ELSE Fail("UnsupportedTypeError", 0)

(***************************************************************************)
(* Reading a document back (a YAML parse of the block-style subset the     *)
(* serializer writes).  A parsed node is a mapping (items: key/value       *)
(* pairs in document order), a sequence (items: values, keys empty) or a   *)
(* scalar (v).                                                             *)
(***************************************************************************)
MapT(items) == [k |-> "map", v |-> None, items |-> items]
SeqT(items) == [k |-> "seq", v |-> None, items |-> items]
ScalarT(v) == [k |-> "scalar", v |-> v, items |-> <<>>]

RECURSIVE LeadingSpaces(_)
LeadingSpaces(line) ==
    IF line # <<>> /\ line[1] = " " THEN 1 + LeadingSpaces(Tail(line)) ELSE 0
Content(line) == SubSeq(line, LeadingSpaces(line) + 1, Len(line))

RECURSIVE ParseDigits(_, _)
ParseDigits(s, acc) ==
    IF s = <<>> THEN acc ELSE ParseDigits(Tail(s), 10 * acc + DigitValue(s[1]))
ParseInt(s) == IF s[1] = "-" THEN 0 - ParseDigits(Tail(s), 0) ELSE ParseDigits(s, 0)
ParseTime(s) ==
    3600 * ParseDigits(SubSeq(s, 1, 2), 0) + 60 * ParseDigits(SubSeq(s, 4, 5), 0)
        + ParseDigits(SubSeq(s, 7, 8), 0)

RECURSIVE HalveQuotes(_)
HalveQuotes(s) ==
    IF s = <<>> THEN <<>>
    ELSE IF PairAt(s, 1, "'", "'") THEN <<"'">> \o HalveQuotes(SubSeq(s, 3, Len(s)))
    ELSE <<s[1]>> \o HalveQuotes(Tail(s))
Unquote(s) == HalveQuotes(SubSeq(s, 2, Len(s) - 1))

ParseScalar(text) ==
    IF text = TXT_emptyMap THEN MapT(<<>>)
    ELSE IF text = TXT_emptySeq THEN SeqT(<<>>)
    ELSE IF text[1] = "'" THEN ScalarT(PyStr(Unquote(text)))
    ELSE IF text \in {TXT_null, <<"~">>} THEN ScalarT(None)
    ELSE IF text = TXT_true THEN ScalarT(PyBool(TRUE))
    ELSE IF text = TXT_false THEN ScalarT(PyBool(FALSE))
    ELSE IF IsIntText(text) THEN ScalarT(PyInt(ParseInt(text)))
    ELSE IF IsTimeText(text) THEN ScalarT(PyTime(ParseTime(text)))
    ELSE ScalarT(PyStr(text))

(* The position of the colon that ends the key of a "key: value" or "key:" *)
(* line, 0 when the line holds no key.                                     *)
KeySplit(c) ==
    LET ends == {i \in 1..Len(c) : c[i] = ":" /\ (i = Len(c) \/ c[i + 1] = " ")}
    IN  IF c = <<>> \/ c[1] = "'" \/ ends = {} THEN 0
        ELSE CHOOSE i \in ends : \A j \in ends : i <= j
IsItemLine(c) == c = <<"-">> \/ PairAt(c, 1, "-", " ")

(* The last line of the entry that starts at ls[1]: the lines after it     *)
(* that are indented deeper than base belong to it.                        *)
RECURSIVE EntryEnd(_, _, _)
EntryEnd(ls, i, base) ==
    IF i < Len(ls) /\ LeadingSpaces(ls[i + 1]) > base
    THEN EntryEnd(ls, i + 1, base)
    ELSE i

RECURSIVE ParseBlock(_)
RECURSIVE ParseItems(_, _)
RECURSIVE ParseEntries(_, _)

ParseItems(ls, base) ==
    IF ls = <<>> THEN <<>>
    ELSE LET e == EntryEnd(ls, 1, base)
             c == Content(ls[1])
             first == Indent(base + 2) \o SubSeq(c, 3, Len(c))
             item == IF c = <<"-">> THEN ScalarT(None)
                     ELSE ParseBlock(<<first>> \o SubSeq(ls, 2, e))
         IN  <<[key |-> <<>>, val |-> item]>> \o ParseItems(SubSeq(ls, e + 1, Len(ls)), base)

ParseEntries(ls, base) ==
    IF ls = <<>> THEN <<>>
    ELSE LET e == EntryEnd(ls, 1, base)
             c == Content(ls[1])
             colon == KeySplit(c)
             key == SubSeq(c, 1, colon - 1)
             rest == SubSeq(c, colon + 2, Len(c))
             val == IF rest # <<>> THEN ParseScalar(rest)
                    ELSE IF e > 1 THEN ParseBlock(SubSeq(ls, 2, e))
                    ELSE ScalarT(None)
         IN  <<[key |-> key, val |-> val]>> \o ParseEntries(SubSeq(ls, e + 1, Len(ls)), base)

ParseBlock(ls) ==
    LET base == LeadingSpaces(ls[1])
        c == Content(ls[1])
    IN  IF IsItemLine(c) THEN SeqT(ParseItems(ls, base))
        ELSE IF KeySplit(c) > 0 THEN MapT(ParseEntries(ls, base))
        ELSE ParseScalar(c)

Parse(text) == IF text = <<>> THEN ScalarT(None) ELSE ParseBlock(text)

Keys(tree) == {tree.items[i].key : i \in 1..Len(tree.items)}
KeySeq(tree) == [i \in 1..Len(tree.items) |-> tree.items[i].key]
ValueAt(tree, key) ==
    tree.items[CHOOSE i \in 1..Len(tree.items) : tree.items[i].key = key].val

(***************************************************************************)
(* The values callers pass in this model.                                  *)
(***************************************************************************)
S_30pct == PyStr(<<"3", "0", "%">>)
S_RollingUpdate == PyStr(<<"R", "o", "l", "l", "i", "n", "g", "U", "p", "d", "a", "t", "e">>)
S_Recreate == PyStr(<<"R", "e", "c", "r", "e", "a", "t", "e">>)
S_appsV1 == PyStr(<<"a", "p", "p", "s", "/", "v", "1">>)
S_empty == PyStr(<<>>)
S_zero == PyStr(<<"0">>)
T_noon == PyTime(45000)

NoCall == [valid |-> FALSE, object |-> None, outcome |-> "", text |-> <<>>, depth |-> 0]

Init ==
    /\ heap = <<>>
    /\ ctor = <<>>
    /\ last = NoCall

(* The caller allocates a node.  Configuration objects are built, then     *)
(* serialized, then discarded: nothing is built once rendering has begun.  *)
Allocate(cls, given, attrs) ==
    /\ ~last.valid
    /\ Len(heap) < MaxNodes
    /\ heap' = Append(heap, [cls |-> cls, attrs |-> attrs, elems |-> <<>>])
    /\ ctor' = Append(ctor, given)
    /\ UNCHANGED last

NewRollingUpdateDeployment ==
    \E max_surge \in {Omitted, S_30pct, PyInt(0)},
       max_unavailable \in {None, PyInt(0)} :
        Allocate("RollingUpdateDeployment", <<max_surge, max_unavailable>>,
                 RollingUpdateDeployment_init(Bind(max_surge, None),
                                              Bind(max_unavailable, None)))

NewDeploymentStrategy ==
    \E rolling_update \in {Omitted} \cup RefsOf("RollingUpdateDeployment"),
       type \in {Omitted, S_RollingUpdate, S_Recreate} :
        Allocate("DeploymentStrategy", <<rolling_update, type>>,
                 DeploymentStrategy_init(Bind(rolling_update, None), Bind(type, None)))

NewDeploymentSpec ==
    \E template \in {Func} \cup ObjectRefs,
       min_ready_seconds \in {PyInt(0)},
       paused \in {PyBool(FALSE)},
       progress_deadline_seconds \in {Omitted},
       replicas \in {Omitted, PyInt(0)},
       revision_history_limit \in {Omitted},
       selector \in {Omitted},
       strategy \in {Omitted} \cup RefsOf("DeploymentStrategy") :
        Allocate("DeploymentSpec",
                 <<template, min_ready_seconds, paused, progress_deadline_seconds,
                   replicas, revision_history_limit, selector, strategy>>,
                 DeploymentSpec_init(template, Bind(min_ready_seconds, None),
                     Bind(paused, None), Bind(progress_deadline_seconds, None),
                     Bind(replicas, None), Bind(revision_history_limit, None),
                     Bind(selector, None), Bind(strategy, None)))

NewDeploymentCondition ==
    \E last_transition_time \in {T_noon},
       last_update_time \in {T_noon},
       message \in {S_empty},
       reason \in {S_Recreate},
       type \in {S_RollingUpdate, Func} :
        Allocate("DeploymentCondition",
                 <<last_transition_time, last_update_time, message, reason, type>>,
                 DeploymentCondition_init(last_transition_time, last_update_time,
                                          message, reason, type))

NewDeployment ==
    \E metadata \in {None} \cup ObjectRefs,
       spec \in ObjectRefs,
       api_version \in {Omitted, S_appsV1} :
        Allocate("Deployment", <<metadata, spec, api_version>>,
                 Deployment_init(metadata, spec, Bind(api_version, None)))

NewDeploymentList ==
    \E items \in {None} \cup ListRefs,
       metadata \in {None, Func} \cup ObjectRefs,
       api_version \in {Omitted, S_appsV1} :
        Allocate("DeploymentList", <<items, metadata, api_version>>,
                 DeploymentList_init(items, metadata, Bind(api_version, None)))

(* The caller writes []. *)
NewList ==
    /\ ~last.valid
    /\ Len(heap) < MaxNodes
    /\ heap' = Append(heap, [cls |-> "list", attrs |-> <<>>, elems |-> <<>>])
    /\ ctor' = Append(ctor, <<>>)
    /\ UNCHANGED last

(* The caller appends to a list it holds, also one it has already passed   *)
(* to a constructor: the object keeps a reference, not a copy.             *)
ListAppend ==
    \E l \in {id \in Ids : IsList(id)}, v \in {S_zero} \cup ObjectRefs :
        /\ ~last.valid
        /\ Len(heap[l].elems) < MaxElems
        /\ heap' = [heap EXCEPT ![l].elems = Append(@, v)]
        /\ UNCHANGED <<ctor, last>>

(* Mutant: the serializer deletes the absent attributes of the objects in  *)
(* place while it renders.                                                 *)
RenderCall_cleaning(object) ==
    LET r == render(object)
        Present(attr) == attr.val # None
    IN  /\ last' = [valid |-> TRUE, object |-> object, outcome |-> r.outcome,
                    text |-> r.text, depth |-> r.depth]
        /\ heap' = [id \in 1..Len(heap) |->
                       [heap[id] EXCEPT !.attrs = SelectSeq(@, Present)]]
        /\ UNCHANGED ctor

(* A render call: synchronous, no suspension point, so one step. *)
RenderCall(object) ==
    LET r == render(object)
    IN  /\ last' = [valid |-> TRUE, object |-> object, outcome |-> r.outcome,
                    text |-> r.text, depth |-> r.depth]
        /\ UNCHANGED <<heap, ctor>>

Render == \E object \in Refs : RenderCall(object)

Next ==
    \/ NewRollingUpdateDeployment
    \/ NewDeploymentStrategy
    \/ NewDeploymentSpec
    \/ NewDeploymentCondition
    \/ NewDeployment
    \/ NewDeploymentList
    \/ NewList
    \/ ListAppend
    \/ Render

Spec == Init /\ [][Next]_vars

(***************************************************************************)
(* What the caller built, as the caller sees it: the arguments of each     *)
(* constructor call and the elements of each list.                         *)
(***************************************************************************)
ParamIndexes(id) == 1..Len(Params(heap[id].cls))
(* The value parameter i of heap[id]'s constructor call was bound to. *)
Arg(id, i) == Bind(ctor[id][i], None)
WireName(id, i) == SnakeToCamel(Params(heap[id].cls)[i])

Children(id) ==
    IF IsList(id)
    THEN {heap[id].elems[i].n : i \in {j \in 1..Len(heap[id].elems) : heap[id].elems[j].t = "ref"}}
    ELSE {Arg(id, i).n : i \in {j \in ParamIndexes(id) : Arg(id, j).t = "ref"}}

RECURSIVE Closure(_)
Closure(S) ==
    LET T == S \cup UNION {Children(id) : id \in S}
    IN  IF T = S THEN S ELSE Closure(T)
NodesFrom(v) == IF v.t = "ref" THEN Closure({v.n}) ELSE {}
OnCycle(id) == id \in Closure(Children(id))
HasCycle(v) == \E id \in NodesFrom(v) : OnCycle(id)
HoldsUnsupported(id) ==
    IF IsList(id)
    THEN \E i \in 1..Len(heap[id].elems) : heap[id].elems[i].t = "func"
    ELSE \E i \in ParamIndexes(id) : Arg(id, i).t = "func"
ReachesUnsupported(v) == v.t = "func" \/ \E id \in NodesFrom(v) : HoldsUnsupported(id)

(* The document the caller's graph stands for: wire names and values of    *)
(* the non-absent arguments.  fuel bounds the walk on a cyclic graph.      *)
RECURSIVE Original(_, _)
RECURSIVE OriginalFields(_, _, _)
OriginalFields(id, i, fuel) ==
    IF i > Len(Params(heap[id].cls)) THEN <<>>
    ELSE (IF Arg(id, i) = None THEN <<>>
          ELSE <<[key |-> WireName(id, i), val |-> Original(Arg(id, i), fuel)]>>)
         \o OriginalFields(id, i + 1, fuel)
Original(v, fuel) ==
    IF IsScalar(v) THEN ScalarT(v)
    ELSE IF v.t # "ref" \/ fuel = 0 THEN [k |-> "other", v |-> v, items |-> <<>>]
    ELSE IF IsList(v.n)
        THEN SeqT([i \in 1..Len(heap[v.n].elems) |->
                      [key |-> <<>>, val |-> Original(heap[v.n].elems[i], fuel - 1)]])
    ELSE MapT(OriginalFields(v.n, 1, fuel - 1))

(* Equality of parsed documents: sequences in order, mappings by key. *)
RECURSIVE TreeEq(_, _)
TreeEq(a, b) ==
    /\ a.k = b.k
    /\ a.v = b.v
    /\ Len(a.items) = Len(b.items)
    /\ IF a.k = "seq"
       THEN \A i \in 1..Len(a.items) : TreeEq(a.items[i].val, b.items[i].val)
       ELSE /\ Cardinality(Keys(a)) = Len(a.items)
            /\ Keys(a) = Keys(b)
            /\ \A i \in 1..Len(a.items) :
                   TreeEq(a.items[i].val, ValueAt(b, a.items[i].key))

Min(a, b) == IF a <= b THEN a ELSE b

(* Every object of the caller's graph that the document shows, with the    *)
(* part of the parsed document that stands for it.                         *)
RECURSIVE Shown(_, _, _)
Shown(v, tree, fuel) ==
    IF v.t # "ref" \/ fuel = 0 THEN {}
    ELSE IF IsList(v.n)
        THEN IF tree.k # "seq" THEN {}
             ELSE UNION {Shown(heap[v.n].elems[i], tree.items[i].val, fuel - 1) :
                            i \in 1..Min(Len(heap[v.n].elems), Len(tree.items))}
    ELSE {[id |-> v.n, tree |-> tree]} \cup
         (IF tree.k # "map" THEN {}
          ELSE UNION {Shown(Arg(v.n, i), ValueAt(tree, WireName(v.n, i)), fuel - 1) :
                         i \in {j \in ParamIndexes(v.n) : WireName(v.n, j) \in Keys(tree)}})

Rendered == last.valid /\ last.outcome = "ok"
ShownObjects ==
    IF Rendered THEN Shown(last.object, Parse(last.text), Len(heap) + 1) ELSE {}
RootIs(cls) == last.valid /\ last.object.t = "ref" /\ heap[last.object.n].cls = cls
Outcomes == {"ok", "UnsupportedTypeError", "CyclicGraphError"}

(***************************************************************************)
(* The line keys of a document at indentation 0.                           *)
(***************************************************************************)
TopKeys(text) ==
    {SubSeq(text[i], 1, KeySplit(text[i]) - 1) :
        i \in {j \in 1..Len(text) : LeadingSpaces(text[j]) = 0 /\ KeySplit(text[j]) > 0}}

(* C1 (Omission): in a rendered document, no object at any nesting depth   *)
(* shows a key for a field whose argument was None or left out, whatever   *)
(* the type the field is declared with; and no line at the root object's   *)
(* nesting level carries such a key.                                       *)
C1_Omission ==
    /\ \A p \in ShownObjects :
          /\ p.tree.k = "map"
          /\ \A i \in ParamIndexes(p.id) :
                Arg(p.id, i) = None => WireName(p.id, i) \notin Keys(p.tree)
    /\ Rendered /\ last.object.t = "ref" /\ IsObject(last.object.n) =>
          \A i \in ParamIndexes(last.object.n) :
              Arg(last.object.n, i) = None =>
                  WireName(last.object.n, i) \notin TopKeys(last.text)

(* A rendered root with an absent scalar field and an absent object field, *)
(* holding a nested object that has an absent field itself.                *)
C1_Witness ==
    /\ Rendered
    /\ RootIs("DeploymentSpec")
    /\ \E p \in ShownObjects :
          /\ p.id # last.object.n
          /\ \E i \in ParamIndexes(p.id) : Arg(p.id, i) = None
          /\ \E i \in ParamIndexes(p.id) : Arg(p.id, i) # None
    /\ Arg(last.object.n, 5) = None
    /\ Arg(last.object.n, 7) = None

(* The field order each class declares: the attributes in the order the    *)
(* class's initializers assign them, the base class's first.               *)
DeclaredFields(cls) ==
    CASE cls = "RollingUpdateDeployment" -> <<ID_maxSurge, ID_maxUnavailable>>
      [] cls = "DeploymentStrategy" -> <<ID_rollingUpdate, ID_type>>
      [] cls = "DeploymentSpec" ->
            <<ID_template, ID_minReadySeconds, ID_paused, ID_progressDeadlineSeconds,
              ID_replicas, ID_revisionHistoryLimit, ID_selector, ID_strategy>>
      [] cls = "DeploymentCondition" ->
            <<ID_lastTransitionTime, ID_lastUpdateTime, ID_message, ID_reason, ID_type>>
      [] cls = "Deployment" -> <<ID_apiVersion, ID_metadata, ID_spec>>
      [] cls = "DeploymentList" -> <<ID_apiVersion, ID_items, ID_metadata>>
      [] OTHER -> <<>>

(* The argument bound to the parameter whose wire name is key. *)
ArgNamed(id, key) ==
    Arg(id, CHOOSE i \in ParamIndexes(id) : WireName(id, i) = key)
IsPresent(id, key) ==
    /\ \E i \in ParamIndexes(id) : WireName(id, i) = key
    /\ ArgNamed(id, key) # None

RECURSIVE Restrict(_, _)
Restrict(fields, id) ==
    IF fields = <<>> THEN <<>>
    ELSE (IF IsPresent(id, fields[1]) THEN <<fields[1]>> ELSE <<>>)
         \o Restrict(Tail(fields), id)

(* C2 (Order preservation): the keys of every object in a rendered         *)
(* document are the class's declared fields, in declared order, that are   *)
(* not absent; so two keys keep their relative order whichever other       *)
(* fields are absent.  For Deployment and DeploymentList the declared      *)
(* order starts with apiVersion, which the base initializer assigns.       *)
C2_OrderPreservation ==
    \A p \in ShownObjects :
        KeySeq(p.tree) = Restrict(DeclaredFields(heap[p.id].cls), p.id)

(* A rendered Deployment with all three fields, and a nested object. *)
C2_Witness ==
    /\ Rendered
    /\ RootIs("Deployment")
    /\ \A i \in 1..3 : Arg(last.object.n, i) # None
    /\ Cardinality(ShownObjects) >= 2

(* C3 (Naming conversion): every key of a rendered object is the           *)
(* lowerCamelCase form of the parameter it was given by, every non-absent  *)
(* parameter has its key, and a snake_case parameter name is never a key.  *)
C3_NamingConversion ==
    /\ SnakeToCamel(ID_max_surge) = ID_maxSurge
    /\ SnakeToCamel(ID_last_transition_time) = ID_lastTransitionTime
    /\ SnakeToCamel(ID_type) = ID_type
    /\ \A p \in ShownObjects :
          /\ \A i \in ParamIndexes(p.id) :
                /\ Arg(p.id, i) # None => WireName(p.id, i) \in Keys(p.tree)
                /\ Params(heap[p.id].cls)[i] # WireName(p.id, i) =>
                       Params(heap[p.id].cls)[i] \notin Keys(p.tree)
          /\ \A key \in Keys(p.tree) :
                /\ \E i \in ParamIndexes(p.id) : key = WireName(p.id, i)
                /\ \A c \in 1..Len(key) : key[c] # "_"

(* A rendered DeploymentCondition: lastTransitionTime, lastUpdateTime and  *)
(* the single-word type are among its keys.                                *)
C3_Witness ==
    /\ Rendered
    /\ RootIs("DeploymentCondition")
    /\ {ID_lastTransitionTime, ID_lastUpdateTime, ID_type} \subseteq TopKeys(last.text)

(* C4 (Absent is not zero): a field given a falsy value (0, False, "") is  *)
(* shown with that value; only a field that is None or left out has no key. *)
C4_FalsyIsPresent ==
    \A p \in ShownObjects :
        \A i \in ParamIndexes(p.id) :
            LET a == Arg(p.id, i)
            IN  /\ IsScalar(a) /\ a # None =>
                      /\ WireName(p.id, i) \in Keys(p.tree)
                      /\ ValueAt(p.tree, WireName(p.id, i)) = ScalarT(a)
                /\ a = None => WireName(p.id, i) \notin Keys(p.tree)

(* A rendered DeploymentSpec with replicas = 0 (shown) next to one with    *)
(* the same field unset: here replicas = 0, paused = False,                *)
(* min_ready_seconds = 0 all given.                                        *)
C4_Witness ==
    /\ Rendered
    /\ RootIs("DeploymentSpec")
    /\ Arg(last.object.n, 2) = PyInt(0)
    /\ Arg(last.object.n, 3) = PyBool(FALSE)
    /\ Arg(last.object.n, 5) = PyInt(0)
    /\ {ID_minReadySeconds, ID_paused, ID_replicas} \subseteq TopKeys(last.text)

(***************************************************************************)
(* The expected lines of the scenarios.                                    *)
(***************************************************************************)
LINE_maxSurge == <<"m", "a", "x", "S", "u", "r", "g", "e", ":", " ", "3", "0", "%">>
LINE_rollingUpdate ==
    <<"r", "o", "l", "l", "i", "n", "g", "U", "p", "d", "a", "t", "e", ":">>
LINE_nestedMaxSurge ==
    <<" ", " ", "m", "a", "x", "S", "u", "r", "g", "e", ":", " ", "3", "0", "%">>
LINE_type ==
    <<"t", "y", "p", "e", ":", " ",
      "R", "o", "l", "l", "i", "n", "g", "U", "p", "d", "a", "t", "e">>

IsScenarioA(id) ==
    /\ heap[id].cls = "RollingUpdateDeployment"
    /\ ctor[id] = <<S_30pct, None>>
IsScenarioB(id) ==
    /\ heap[id].cls = "DeploymentStrategy"
    /\ ctor[id][1].t = "ref" /\ IsScenarioA(ctor[id][1].n)
    /\ ctor[id][2] = S_RollingUpdate

(* The lines of one field of a root object: a scalar inline after the key, *)
(* a nested object or list as the key and then the value's own rendering   *)
(* two spaces deeper.                                                      *)
FieldLines(key, a) ==
    IF IsScalar(a) THEN <<Cat3(key, <<":", " ">>, ScalarLiteral(a))>>
    ELSE LET child == render(a).text
         IN  IF child = <<EmptyLiteral(a.n)>>
             THEN <<Cat3(key, <<":", " ">>, EmptyLiteral(a.n))>>
             ELSE <<key \o <<":">>>> \o [i \in 1..Len(child) |-> Indent(2) \o child[i]]

RECURSIVE ComposedLines(_, _)
ComposedLines(fields, id) ==
    IF fields = <<>> THEN <<>>
    ELSE (IF IsPresent(id, fields[1])
          THEN FieldLines(fields[1], ArgNamed(id, fields[1]))
          ELSE <<>>)
         \o ComposedLines(Tail(fields), id)

(* C5 (Nested rendering): Scenario A renders to the single line            *)
(* "maxSurge: 30%", Scenario B to "rollingUpdate:", "  maxSurge: 30%",     *)
(* "type: RollingUpdate"; and every rendered object is, field by field, a  *)
(* scalar inline after its key or the key followed by the nested value's   *)
(* rendering one level (two spaces) deeper.                                *)
C5_NestedRendering ==
    last.valid /\ last.object.t = "ref" /\ IsObject(last.object.n) =>
        LET id == last.object.n
        IN  /\ IsScenarioA(id) => last.outcome = "ok" /\ last.text = <<LINE_maxSurge>>
            /\ IsScenarioB(id) =>
                   /\ last.outcome = "ok"
                   /\ last.text = <<LINE_rollingUpdate, LINE_nestedMaxSurge, LINE_type>>
            /\ last.outcome = "ok" /\ last.text # <<TXT_emptyMap>> =>
                   last.text = ComposedLines(DeclaredFields(heap[id].cls), id)

(* Scenario B has been rendered. *)
C5_Witness ==
    /\ Rendered
    /\ last.object.t = "ref"
    /\ IsScenarioB(last.object.n)
    /\ Len(last.text) = 3

(* C6 (Cycle detection and termination): every render call ends, its       *)
(* recursion path never longer than the number of nodes; it raises         *)
(* CyclicGraphError only on a graph with a cycle, never returns a document *)
(* for such a graph, and raises CyclicGraphError on it unless an           *)
(* unsupported value is in the graph; an object shared by two sibling      *)
(* fields is no cycle.                                                     *)
C6_CycleDetection ==
    last.valid =>
        /\ last.outcome \in Outcomes
        /\ last.depth <= Len(heap)
        /\ last.outcome = "CyclicGraphError" => HasCycle(last.object)
        /\ HasCycle(last.object) => last.outcome # "ok" /\ last.text = <<>>
        /\ HasCycle(last.object) /\ ~ReachesUnsupported(last.object) =>
               last.outcome = "CyclicGraphError"

(* A DeploymentList whose items list holds the DeploymentList itself was   *)
(* rendered and raised CyclicGraphError.                                   *)
C6_Witness ==
    /\ RootIs("DeploymentList")
    /\ last.outcome = "CyclicGraphError"
    /\ OnCycle(last.object.n)

(* C7 as stated: whenever a value with no rendering rule is anywhere in    *)
(* the graph, render raises UnsupportedTypeError and returns no text.      *)
C7_AsStated ==
    last.valid /\ ReachesUnsupported(last.object) =>
        last.outcome = "UnsupportedTypeError" /\ last.text = <<>>

(* C7 (All-or-nothing), amended: a render call ends in exactly one of a    *)
(* document, UnsupportedTypeError, CyclicGraphError; an error carries no   *)
(* text; a graph holding an unsupported value anywhere never yields a      *)
(* document: it raises UnsupportedTypeError, or CyclicGraphError when the  *)
(* graph also has a cycle; and UnsupportedTypeError is raised only for     *)
(* such a graph.                                                           *)
C7_AllOrNothing ==
    last.valid =>
        /\ last.outcome \in Outcomes
        /\ last.outcome # "ok" => last.text = <<>>
        /\ last.outcome = "ok" => last.text # <<>>
        /\ ReachesUnsupported(last.object) =>
               /\ last.outcome \in {"UnsupportedTypeError", "CyclicGraphError"}
               /\ ~HasCycle(last.object) => last.outcome = "UnsupportedTypeError"
        /\ last.outcome = "UnsupportedTypeError" => ReachesUnsupported(last.object)

(* UnsupportedTypeError was raised for a value one level down, the last    *)
(* field of a nested DeploymentCondition, after the root's apiVersion and  *)
(* the condition's earlier fields had been rendered.                       *)
C7_Witness ==
    /\ RootIs("Deployment")
    /\ last.outcome = "UnsupportedTypeError"
    /\ last.text = <<>>
    /\ Arg(last.object.n, 3) = S_appsV1
    /\ ~HoldsUnsupported(last.object.n)
    /\ Arg(last.object.n, 2).t = "ref"
    /\ heap[Arg(last.object.n, 2).n].cls = "DeploymentCondition"
    /\ Arg(Arg(last.object.n, 2).n, 5) = Func

(* C8 (Round-trip): parsing a rendered document yields exactly the wire    *)
(* names and values of the non-absent fields the caller gave, nested       *)
(* objects recursively and sequence elements in order.                     *)
C8_RoundTrip ==
    Rendered => TreeEq(Parse(last.text), Original(last.object, Len(heap) + 1))

(* A rendered DeploymentList with two items, one of them an object, and a  *)
(* nested metadata object.                                                 *)
C8_Witness ==
    /\ Rendered
    /\ RootIs("DeploymentList")
    /\ Arg(last.object.n, 1).t = "ref"
    /\ LET items == heap[Arg(last.object.n, 1).n].elems
       IN  Len(items) = 2 /\ items[1] # items[2] /\ \E i \in 1..2 : items[i].t = "ref"
    /\ Arg(last.object.n, 2).t = "ref"
    /\ Len(last.text) >= 4

C10_PureAssignment ==
    /\ Len(heap) = Len(ctor)
    /\ \A id \in {i \in Ids : IsObject(i)} :
          /\ Len(heap[id].attrs) = Len(Params(heap[id].cls))
          /\ \A i \in ParamIndexes(id) :
                /\ \E j \in 1..Len(heap[id].attrs) :
                      heap[id].attrs[j] =
                          [name |-> SnakeToCamel(Params(heap[id].cls)[i]),
                           val |-> IF ctor[id][i] = Omitted THEN None ELSE ctor[id][i]]

(* Constructed without rejection: a RollingUpdateDeployment with both      *)
(* max_surge and max_unavailable zero, and a DeploymentStrategy of type    *)
(* "Recreate" with a rolling_update present.                               *)
C10_Witness ==
    /\ \E id \in Ids :
          /\ heap[id].cls = "RollingUpdateDeployment"
          /\ ctor[id] = <<PyInt(0), PyInt(0)>>
          /\ heap[id].attrs[1].val = PyInt(0) /\ heap[id].attrs[2].val = PyInt(0)
    /\ \E id \in Ids :
          /\ heap[id].cls = "DeploymentStrategy"
          /\ ctor[id][2] = S_Recreate
          /\ heap[id].attrs[1].val.t = "ref"
====
